---- MODULE Spec2Model ----
(***************************************************************************)
(* Scan worker lifecycle of v2/pkg/web/api/services/scans/worker.go.       *)
(*                                                                         *)
(* Every run of ScanService.worker is a process with its own program       *)
(* counter; the runs share one table, ScanService.Running.  A run's        *)
(* deferred calls are kept on a stack and executed last-in first-out when  *)
(* the function returns, as Go does.  scanContext.Close is not atomic: its *)
(* three statements are separate steps that interleave with other runs.    *)
(***************************************************************************)
EXTENDS Integers, Sequences, FiniteSets, TLC

\* ------------------------------------------------------------------ bounds
NumRuns == 2
MaxTemplates == 2
MaxWorkflows == 1
MaxTargets == 3

Runs == 1..NumRuns

\* req.ScanID of run r: caller-assigned, unique per request.
ScanID(r) == 100 + r

JobIDs == {ScanID(r) : r \in Runs}

\* req.Config: the names the requests carry: a stored profile, a name with no
\* profile, and a profile whose document does not decode.
ConfigNames == {"default", "missing", "malformed"}

\* What the collaborators make of a request: the templates and workflows the
\* store loads, the targets the input provider counts, and whether the
\* engine's Execute reports a failure.
Requests ==
    [templates : 0..MaxTemplates, workflows : 0..MaxWorkflows,
     targets : 0..MaxTargets, engineFails : BOOLEAN]

\* The request every run of the concurrent specification is called with:
\* two templates, three targets.
ExampleRequest ==
    [templates |-> 2, workflows |-> 0, targets |-> 3, engineFails |-> FALSE]

\* A nil *types.Options.
NoOptions == [set |-> FALSE, RateLimit |-> 0, RateLimitMinute |-> 0]

\* A nil ratelimit.Limiter.
NoLimiter == [limit |-> 0, per |-> 0, instance |-> 0]

\* A tracker as progress.NewStatsTicker returns it: Init not yet called.
NoStats == [inits |-> 0, hosts |-> 0, rules |-> 0, requests |-> 0]

\* A nil PercentReturnFunc (no tracker is numbered 0).
NilAccessor == [tracker |-> 0]

\* ------------------------------------------------------------ collaborators
\* s.db.GetSettingByName: the stored document of a profile, and whether the
\* profile exists.
GetSettingByName(name) ==
    CASE name = "default"   -> [found |-> TRUE,  wellFormed |-> TRUE,  RateLimit |-> 10, RateLimitMinute |-> 0]
      [] name = "perminute" -> [found |-> TRUE,  wellFormed |-> TRUE,  RateLimit |-> 0,  RateLimitMinute |-> 60]
      [] name = "malformed" -> [found |-> TRUE,  wellFormed |-> FALSE, RateLimit |-> 0,  RateLimitMinute |-> 0]
      [] OTHER              -> [found |-> FALSE, wellFormed |-> FALSE, RateLimit |-> 0,  RateLimitMinute |-> 0]

\* settings.ToTypesOptions: the decoded document as types.Options.
ToTypesOptions(doc) ==
    [set |-> TRUE, RateLimit |-> doc.RateLimit, RateLimitMinute |-> doc.RateLimitMinute]

\* getSettingsForName with the decoder's error dropped.
getSettingsForNameNoDecodeCheck(name) ==
    LET setting == GetSettingByName(name) IN
    IF ~setting.found THEN [options |-> NoOptions, err |-> "ConfigNotFound"]
    ELSE [options |-> ToTypesOptions(setting), err |-> "nil"]

\* getSettingsForName: the pair (options, error).
getSettingsForName(name) ==
    LET setting == GetSettingByName(name) IN
    IF ~setting.found THEN [options |-> NoOptions, err |-> "ConfigNotFound"]
    ELSE IF ~setting.wellFormed THEN [options |-> NoOptions, err |-> "DecodeError"]
    ELSE [options |-> ToTypesOptions(setting), err |-> "nil"]

\* ----------------------------------------------------------------- registry
\* A closure over one tracker kept by the service, not the one it was given.
makePercentReturnFuncShared(stats) == [tracker |-> 1]

\* makePercentReturnFunc: the closure over the progress tracker it was given.
makePercentReturnFunc(stats) == [tracker |-> stats]

\* Store that keeps the entry an id already has.
StoreIfAbsent(reg, id, accessor) ==
    IF \E e \in reg : e.id = id
    THEN reg
    ELSE reg \cup {[id |-> id, accessor |-> accessor]}

\* Store on a table that keeps only the newest entry.
StoreSingleSlot(reg, id, accessor) == {[id |-> id, accessor |-> accessor]}

\* s.Running.Store(id, accessor): the entry of id is replaced.
Store(reg, id, accessor) ==
    {e \in reg : e.id # id} \cup {[id |-> id, accessor |-> accessor]}

\* Delete that removes every entry up to the given id.
DeleteUpTo(reg, id) == {e \in reg : e.id > id}

\* s.Running.Delete(id): the entry of id, if any, is removed.
Delete(reg, id) == {e \in reg : e.id # id}

\* s.Running.Load(id) of a status caller: the pair (accessor, ok).
Load(reg, id) ==
    IF \E e \in reg : e.id = id
    THEN [ok |-> TRUE, value |-> (CHOOSE e \in reg : e.id = id).accessor]
    ELSE [ok |-> FALSE, value |-> NilAccessor]

\* ------------------------------------------------------------- rate limiter
\* The plain rate limit preferred whenever it is set.
selectLimiterPlainFirst(opts) ==
    IF opts.RateLimit > 0
    THEN [limit |-> opts.RateLimit, per |-> 1]
    ELSE [limit |-> opts.RateLimitMinute, per |-> 60]

\* The limiter createExecuterOpts builds from the options.
selectLimiter(opts) ==
    IF opts.RateLimitMinute > 0
    THEN [limit |-> opts.RateLimitMinute, per |-> 60]
    ELSE [limit |-> opts.RateLimit, per |-> 1]

\* One limiter kept by the service and handed to every run.
NewLimiterShared(r, shape) ==
    [limit |-> shape.limit, per |-> shape.per, instance |-> 1]

\* ratelimit.New called by run r: a limiter of its own, of the given shape.
NewLimiter(r, shape) ==
    [limit |-> shape.limit, per |-> shape.per, instance |-> r]

\* finalTemplates without the workflows.
FinalTemplatesNoWorkflows(req) == req.templates

\* worker: finalTemplates, the loaded templates followed by the workflows.
FinalTemplates(req) == req.templates + req.workflows

\* Progress.Init(hostCount, rulesCount, requestCount) on a tracker.
ProgressInitCall(tracker, hosts, rules, requests) ==
    [inits |-> tracker.inits + 1, hosts |-> hosts, rules |-> rules,
     requests |-> requests]

\* -------------------------------------------------------------------- state
VARIABLES
    pc,            \* pc[r]: where run r of worker stands
    config,        \* config[r]: req.Config of run r ("": not yet invoked)
    typesOptions,  \* typesOptions[r]: the options resolved for run r
    workdir,       \* workdir[r]: the templates directory: none, present, removed
    Running,       \* s.Running: set of [id, accessor]
    progressImpl,  \* progressImpl[r]: the tracker created for run r (0: none)
    logsFile,      \* logsFile[r]: the log sink: none, open, closed
    logs,          \* logs[r]: the bufio.Writer holds unflushed output
    written,       \* written[r]: output has reached the log sink
    limiter,       \* limiter[r]: executerOpts.RateLimiter
    ctx,           \* ctx[r]: state of the scanContext
    defers,        \* defers[r]: deferred calls of worker, oldest first
    closeStep,     \* closeStep[r]: next statement of Close (0: not in Close)
    err,           \* err[r]: value worker returns
    hist,          \* hist[r]: the calls run r has made, in order
    lastQuery,     \* the last answer a status caller got from s.Running
    regOp,         \* last operation of the registry harness (SpecRegistry)
    request,       \* request[r]: what the collaborators make of run r's request
    progressStats, \* progressStats[t]: the progress tracker numbered t
    optsProgress,  \* optsProgress[r]: scanCtx.executerOpts.Progress (0: none)
    engineProgress \* engineProgress[r]: Progress of the engine's options (0: none)

vars == <<pc, config, typesOptions, workdir, Running, progressImpl, logsFile,
          logs, written, limiter, ctx, defers, closeStep, err, hist,
          lastQuery, regOp, request, progressStats, optsProgress,
          engineProgress>>

NoQuery == [id |-> 0, ok |-> FALSE, value |-> NilAccessor]
NoOp == [op |-> "none", id |-> 0, stats |-> 0, before |-> {}]

\* The state when the runs are called with the requests reqs.
InitWith(reqs) ==
    /\ pc = [r \in Runs |-> "start"]
    /\ config = [r \in Runs |-> ""]
    /\ typesOptions = [r \in Runs |-> NoOptions]
    /\ workdir = [r \in Runs |-> "none"]
    /\ Running = {}
    /\ progressImpl = [r \in Runs |-> 0]
    /\ logsFile = [r \in Runs |-> "none"]
    /\ logs = [r \in Runs |-> FALSE]
    /\ written = [r \in Runs |-> FALSE]
    /\ limiter = [r \in Runs |-> NoLimiter]
    /\ ctx = [r \in Runs |-> "none"]
    /\ defers = [r \in Runs |-> << >>]
    /\ closeStep = [r \in Runs |-> 0]
    /\ err = [r \in Runs |-> "pending"]
    /\ hist = [r \in Runs |-> << >>]
    /\ lastQuery = NoQuery
    /\ regOp = NoOp
    /\ request = reqs
    /\ progressStats = [t \in Runs |-> NoStats]
    /\ optsProgress = [r \in Runs |-> 0]
    /\ engineProgress = [r \in Runs |-> 0]

Init == InitWith([r \in Runs |-> ExampleRequest])

\* ------------------------------------------------------------------ helpers
\* A call made by run r is appended to its history.
Log(r, ev) == hist' = [hist EXCEPT ![r] = Append(@, ev)]

\* Where a returning worker stands with the deferred calls d still to run.
Returning(d) == IF d = << >> THEN "done" ELSE "unwind"

\* `return e`: the result is set, the deferred calls (if any) run next.
Return(r, e) ==
    /\ err' = [err EXCEPT ![r] = e]
    /\ pc' = [pc EXCEPT ![r] = Returning(defers[r])]

Goto(r, label) == pc' = [pc EXCEPT ![r] = label]

\* Close without the registry removal.
CloseBodyNoDelete == <<"Flush", "FileClose">>

\* Close that leaves the sink open.
CloseBodyNoFileClose == <<"Flush", "Delete">>

\* Close with the sink closed before the writer is flushed.
CloseBodyCloseFirst == <<"FileClose", "Flush", "Delete">>

\* The statements of scanContext.Close, in program order.
CloseBody == <<"Flush", "FileClose", "Delete">>

\* The removal of the directory not deferred.
DeferRemoveAllForgotten(d) == d

\* `defer os.RemoveAll(templatesDirectory)`.
DeferRemoveAll(d) == Append(d, "RemoveAll")

\* Close not deferred.
DeferCloseForgotten(d) == d

\* `defer scanCtx.Close()`.
DeferClose(d) == Append(d, "Close")

\* Deferred calls run oldest first.
NextDeferredOldest(d) == 1

\* Position in the defer list of the call that runs next: the newest.
NextDeferred(d) == Len(d)

\* The defer list without the call at position i.
WithoutDeferred(d, i) ==
    [k \in 1..(Len(d) - 1) |-> IF k < i THEN d[k] ELSE d[k + 1]]

\* ------------------------------------------------------------------ actions
\* worker is called with a request and resolves its profile:
\* typesOptions, err := s.getSettingsForName(req.Config).
ResolveConfig(r) ==
    /\ pc[r] = "start"
    /\ \E name \in ConfigNames :
          LET res == getSettingsForName(name) IN
          /\ config' = [config EXCEPT ![r] = name]
          /\ IF res.err # "nil"
             THEN /\ Return(r, res.err)
                  /\ UNCHANGED typesOptions
             ELSE /\ typesOptions' = [typesOptions EXCEPT ![r] = res.options]
                  /\ Goto(r, "materialize")
                  /\ UNCHANGED err
    /\ Log(r, "getSettingsForName")
    /\ UNCHANGED <<workdir, Running, progressImpl, logsFile, logs,
                   written, limiter, ctx, defers, closeStep, lastQuery, regOp>>
    /\ UNCHANGED <<request, progressStats, optsProgress, engineProgress>>

\* worker: s.storeTemplatesFromRequest(req.Templates), then the deferred
\* removal of the directory it made.
StoreTemplatesFromRequest(r) ==
    /\ pc[r] = "materialize"
    /\ \E ok \in BOOLEAN :
          IF ~ok
          THEN /\ Return(r, "MaterializationError")
               /\ UNCHANGED <<workdir, defers>>
          ELSE /\ workdir' = [workdir EXCEPT ![r] = "present"]
               /\ defers' = [defers EXCEPT ![r] = DeferRemoveAll(@)]
               /\ Goto(r, "register")
               /\ UNCHANGED err
    /\ Log(r, "storeTemplatesFromRequest")
    /\ UNCHANGED <<config, typesOptions, Running, progressImpl, logsFile, logs,
                   written, limiter, ctx, closeStep, lastQuery, regOp>>
    /\ UNCHANGED <<request, progressStats, optsProgress, engineProgress>>

\* createExecuterOpts: the tracker is made and its accessor registered.
RegisterProgress(r) ==
    /\ pc[r] = "register"
    /\ progressImpl' = [progressImpl EXCEPT ![r] = r]
    /\ Running' = Store(Running, ScanID(r), makePercentReturnFunc(r))
    /\ Goto(r, "openlog")
    /\ Log(r, "Running.Store")
    /\ UNCHANGED <<config, typesOptions, workdir, logsFile, logs, written,
                   limiter, ctx, defers, closeStep, err, lastQuery, regOp>>
    /\ UNCHANGED <<request, progressStats, optsProgress, engineProgress>>

\* createExecuterOpts from s.Logs.Write on, and worker's `defer scanCtx.Close()`.
OpenLog(r) ==
    /\ pc[r] = "openlog"
    /\ \E ok \in BOOLEAN :
          IF ~ok
          THEN /\ Return(r, "IOError")
               /\ UNCHANGED <<logsFile, optsProgress, limiter, ctx, defers>>
          ELSE /\ logsFile' = [logsFile EXCEPT ![r] = "open"]
               /\ optsProgress' = [optsProgress EXCEPT ![r] = progressImpl[r]]
               /\ limiter' = [limiter EXCEPT ![r] =
                                 NewLimiter(r, selectLimiter(typesOptions[r]))]
               /\ ctx' = [ctx EXCEPT ![r] = "Created"]
               /\ defers' = [defers EXCEPT ![r] = DeferClose(@)]
               /\ Goto(r, "populate")
               /\ UNCHANGED err
    /\ Log(r, "Logs.Write")
    /\ UNCHANGED <<config, typesOptions, workdir, Running, progressImpl, logs,
                   written, closeStep, lastQuery, regOp>>
    /\ UNCHANGED <<request, progressStats, engineProgress>>

\* createExecuterFromOpts with its error ignored by worker.
CreateExecuterFromOptsUnchecked(r) ==
    /\ pc[r] = "populate"
    /\ \E outcome \in {"ok", "NewLoaderFailed", "LoaderNewFailed"} :
          IF outcome # "ok"
          THEN UNCHANGED <<ctx, engineProgress>>
          ELSE /\ ctx' = [ctx EXCEPT ![r] = "Populated"]
               /\ engineProgress' = [engineProgress EXCEPT ![r] = optsProgress[r]]
    /\ Goto(r, "input")
    /\ Log(r, "createExecuterFromOpts")
    /\ UNCHANGED <<config, typesOptions, workdir, Running, progressImpl,
                   logsFile, logs, written, limiter, defers, closeStep, err,
                   lastQuery, regOp>>
    /\ UNCHANGED <<request, progressStats, optsProgress>>

\* createExecuterFromOpts whose failure leaves worker without running the
\* deferred calls.
CreateExecuterFromOptsExit(r) ==
    /\ pc[r] = "populate"
    /\ \E outcome \in {"ok", "NewLoaderFailed", "LoaderNewFailed"} :
          IF outcome # "ok"
          THEN /\ err' = [err EXCEPT ![r] = "SetupError"]
               /\ Goto(r, "done")
               /\ UNCHANGED <<ctx, engineProgress>>
          ELSE /\ ctx' = [ctx EXCEPT ![r] = "Populated"]
               /\ engineProgress' = [engineProgress EXCEPT ![r] = optsProgress[r]]
               /\ Goto(r, "input")
               /\ UNCHANGED err
    /\ Log(r, "createExecuterFromOpts")
    /\ UNCHANGED <<config, typesOptions, workdir, Running, progressImpl,
                   logsFile, logs, written, limiter, defers, closeStep,
                   lastQuery, regOp>>
    /\ UNCHANGED <<request, progressStats, optsProgress>>

\* worker: err = s.createExecuterFromOpts(scanCtx); either constructor may fail.
CreateExecuterFromOpts(r) ==
    /\ pc[r] = "populate"
    /\ \E outcome \in {"ok", "NewLoaderFailed", "LoaderNewFailed"} :
          IF outcome # "ok"
          THEN /\ Return(r, "SetupError")
               /\ UNCHANGED <<ctx, engineProgress>>
          ELSE /\ ctx' = [ctx EXCEPT ![r] = "Populated"]
               /\ engineProgress' = [engineProgress EXCEPT ![r] = optsProgress[r]]
               /\ Goto(r, "input")
               /\ UNCHANGED err
    /\ Log(r, "createExecuterFromOpts")
    /\ UNCHANGED <<config, typesOptions, workdir, Running, progressImpl,
                   logsFile, logs, written, limiter, defers, closeStep,
                   lastQuery, regOp>>
    /\ UNCHANGED <<request, progressStats, optsProgress>>

\* inputProviderFromRequest with the `return err` missing.
InputProviderFromRequestNoReturn(r) ==
    /\ pc[r] = "input"
    /\ \E ok \in BOOLEAN :
          IF ~ok
          THEN err' = [err EXCEPT ![r] = "InputError"]
          ELSE UNCHANGED err
    /\ Goto(r, "init")
    /\ Log(r, "inputProviderFromRequest")
    /\ UNCHANGED <<config, typesOptions, workdir, Running, progressImpl,
                   logsFile, logs, written, limiter, ctx, defers, closeStep,
                   lastQuery, regOp>>
    /\ UNCHANGED <<request, progressStats, optsProgress, engineProgress>>

\* worker: inputProvider, err := s.inputProviderFromRequest(req.Targets).
InputProviderFromRequest(r) ==
    /\ pc[r] = "input"
    /\ \E ok \in BOOLEAN :
          IF ~ok
          THEN Return(r, "InputError")
          ELSE Goto(r, "init") /\ UNCHANGED err
    /\ Log(r, "inputProviderFromRequest")
    /\ UNCHANGED <<config, typesOptions, workdir, Running, progressImpl,
                   logsFile, logs, written, limiter, ctx, defers, closeStep,
                   lastQuery, regOp>>
    /\ UNCHANGED <<request, progressStats, optsProgress, engineProgress>>

\* worker: scanCtx.executerOpts.Progress.Init(inputProvider.Count(),
\* len(finalTemplates), len(finalTemplates) * inputProvider.Count()).
ProgressInit(r) ==
    /\ pc[r] = "init"
    /\ LET count == request[r].targets
           rules == FinalTemplates(request[r]) IN
       progressStats' = [progressStats EXCEPT ![optsProgress[r]] =
                            ProgressInitCall(@, count, rules, rules * count)]
    /\ Goto(r, "execute")
    /\ Log(r, "Progress.Init")
    /\ UNCHANGED <<config, typesOptions, workdir, Running, progressImpl,
                   logsFile, logs, written, limiter, ctx, defers, closeStep,
                   err, lastQuery, regOp>>
    /\ UNCHANGED <<request, optsProgress, engineProgress>>

\* worker: scanCtx.executer.Execute is called.
ExecuteCall(r) ==
    /\ pc[r] = "execute"
    /\ ctx' = [ctx EXCEPT ![r] = "Executing"]
    /\ Goto(r, "executing")
    /\ Log(r, "Execute")
    /\ UNCHANGED <<config, typesOptions, workdir, Running, progressImpl,
                   logsFile, logs, written, limiter, defers, closeStep, err,
                   lastQuery, regOp>>
    /\ UNCHANGED <<request, progressStats, optsProgress, engineProgress>>

\* The engine writes to the job's output writer (the bufio.Writer).
EngineWrite(r) ==
    /\ pc[r] = "executing"
    /\ ~logs[r]
    /\ logs' = [logs EXCEPT ![r] = TRUE]
    /\ UNCHANGED <<pc, config, typesOptions, workdir, Running, progressImpl,
                   logsFile, written, limiter, ctx, defers, closeStep, err,
                   hist, lastQuery, regOp>>
    /\ UNCHANGED <<request, progressStats, optsProgress, engineProgress>>

\* Execute's error returned by worker.
ExecuteReturnPropagates(r) ==
    /\ pc[r] = "executing"
    /\ LET result == IF request[r].engineFails THEN "EngineError" ELSE "nil" IN
       IF result # "nil"
       THEN Return(r, result)
       ELSE Goto(r, "metrics") /\ UNCHANGED err
    /\ Log(r, "ExecuteReturn")
    /\ UNCHANGED <<config, typesOptions, workdir, Running, progressImpl,
                   logsFile, logs, written, limiter, ctx, defers, closeStep,
                   lastQuery, regOp>>
    /\ UNCHANGED <<request, progressStats, optsProgress, engineProgress>>

\* Execute returns; its result is discarded (`_ =`).
ExecuteReturn(r) ==
    /\ pc[r] = "executing"
    /\ LET result == IF request[r].engineFails THEN "EngineError" ELSE "nil" IN
       result \in {"EngineError", "nil"}
    /\ Log(r, "ExecuteReturn")
    /\ Goto(r, "metrics")
    /\ UNCHANGED <<config, typesOptions, workdir, Running, progressImpl,
                   logsFile, logs, written, limiter, ctx, defers, closeStep,
                   err, lastQuery, regOp>>
    /\ UNCHANGED <<request, progressStats, optsProgress, engineProgress>>

\* worker: the metrics are logged and `return nil`.
GetMetrics(r) ==
    /\ pc[r] = "metrics"
    /\ Return(r, "nil")
    /\ Log(r, "GetMetrics")
    /\ UNCHANGED <<config, typesOptions, workdir, Running, progressImpl,
                   logsFile, logs, written, limiter, ctx, defers, closeStep,
                   lastQuery, regOp>>
    /\ UNCHANGED <<request, progressStats, optsProgress, engineProgress>>

\* worker is returning: its newest deferred call starts.  os.RemoveAll is
\* one step; worker has returned when no deferred call is left.
Unwind(r) ==
    /\ pc[r] = "unwind"
    /\ LET i == NextDeferred(defers[r])
           rest == WithoutDeferred(defers[r], i) IN
       /\ defers' = [defers EXCEPT ![r] = rest]
       /\ IF defers[r][i] = "RemoveAll"
          THEN /\ workdir' = [workdir EXCEPT ![r] = "removed"]
               /\ Log(r, "RemoveAll")
               /\ Goto(r, Returning(rest))
               /\ UNCHANGED closeStep
          ELSE /\ Goto(r, "close")
               /\ closeStep' = [closeStep EXCEPT ![r] = 1]
               /\ Log(r, "Close")
               /\ UNCHANGED workdir
    /\ UNCHANGED <<config, typesOptions, Running, progressImpl, logsFile, logs,
                   written, limiter, ctx, err, lastQuery, regOp>>
    /\ UNCHANGED <<request, progressStats, optsProgress, engineProgress>>

\* scanContext.Close: its next statement; after the last one worker goes on
\* returning.
CloseStep(r) ==
    /\ pc[r] = "close"
    /\ LET stmt == CloseBody[closeStep[r]] IN
       /\ Log(r, stmt)
       /\ CASE stmt = "Flush" ->
                 /\ IF logsFile[r] = "open"
                    THEN /\ written' = [written EXCEPT ![r] = @ \/ logs[r]]
                         /\ logs' = [logs EXCEPT ![r] = FALSE]
                    ELSE UNCHANGED <<written, logs>>
                 /\ UNCHANGED <<logsFile, Running>>
            [] stmt = "FileClose" ->
                 /\ logsFile' = [logsFile EXCEPT ![r] = "closed"]
                 /\ UNCHANGED <<written, logs, Running>>
            [] stmt = "Delete" ->
                 /\ Running' = Delete(Running, ScanID(r))
                 /\ UNCHANGED <<written, logs, logsFile>>
    /\ IF closeStep[r] = Len(CloseBody)
       THEN /\ closeStep' = [closeStep EXCEPT ![r] = 0]
            /\ ctx' = [ctx EXCEPT ![r] = "Closed"]
            /\ Goto(r, Returning(defers[r]))
       ELSE /\ closeStep' = [closeStep EXCEPT ![r] = @ + 1]
            /\ UNCHANGED <<ctx, pc>>
    /\ UNCHANGED <<config, typesOptions, workdir, progressImpl, limiter,
                   defers, err, lastQuery, regOp>>
    /\ UNCHANGED <<request, progressStats, optsProgress, engineProgress>>

\* A status caller looks a job up in s.Running.
Query ==
    /\ \E id \in JobIDs :
          LET res == Load(Running, id) IN
          lastQuery' = [id |-> id, ok |-> res.ok, value |-> res.value]
    /\ UNCHANGED <<pc, config, typesOptions, workdir, Running, progressImpl,
                   logsFile, logs, written, limiter, ctx, defers, closeStep,
                   err, hist, regOp>>
    /\ UNCHANGED <<request, progressStats, optsProgress, engineProgress>>

Next ==
    \/ \E r \in Runs : ResolveConfig(r)
    \/ \E r \in Runs : StoreTemplatesFromRequest(r)
    \/ \E r \in Runs : RegisterProgress(r)
    \/ \E r \in Runs : OpenLog(r)
    \/ \E r \in Runs : CreateExecuterFromOpts(r)
    \/ \E r \in Runs : InputProviderFromRequest(r)
    \/ \E r \in Runs : ProgressInit(r)
    \/ \E r \in Runs : ExecuteCall(r)
    \/ \E r \in Runs : EngineWrite(r)
    \/ \E r \in Runs : ExecuteReturn(r)
    \/ \E r \in Runs : GetMetrics(r)
    \/ \E r \in Runs : Unwind(r)
    \/ \E r \in Runs : CloseStep(r)
    \/ Query

Spec == Init /\ [][Next]_vars

\* ------------------------------------------------------------ a single run
\* One worker running alone, called with any request.
Solo == CHOOSE r \in Runs : \A q \in Runs : r <= q

InitSolo ==
    \E req \in Requests :
        InitWith([r \in Runs |-> IF r = Solo THEN req ELSE ExampleRequest])

NextSolo ==
    \/ ResolveConfig(Solo)
    \/ StoreTemplatesFromRequest(Solo)
    \/ RegisterProgress(Solo)
    \/ OpenLog(Solo)
    \/ CreateExecuterFromOpts(Solo)
    \/ InputProviderFromRequest(Solo)
    \/ ProgressInit(Solo)
    \/ ExecuteCall(Solo)
    \/ EngineWrite(Solo)
    \/ ExecuteReturn(Solo)
    \/ GetMetrics(Solo)
    \/ Unwind(Solo)
    \/ CloseStep(Solo)
    \/ Query

SpecSolo == InitSolo /\ [][NextSolo]_vars

\* --------------------------------------------------------- registry harness
\* The registry operations applied in any order to any id; no run is started.
\* register(id, accessor), as createExecuterOpts calls it.
Register(id, stats) ==
    /\ Running' = Store(Running, id, makePercentReturnFunc(stats))
    /\ regOp' = [op |-> "register", id |-> id, stats |-> stats,
                 before |-> Running]
    /\ UNCHANGED <<pc, config, typesOptions, workdir, progressImpl, logsFile,
                   logs, written, limiter, ctx, defers, closeStep, err, hist,
                   lastQuery>>
    /\ UNCHANGED <<request, progressStats, optsProgress, engineProgress>>

\* unregister(id), as Close calls it.
Unregister(id) ==
    /\ Running' = Delete(Running, id)
    /\ regOp' = [op |-> "unregister", id |-> id, stats |-> 0,
                 before |-> Running]
    /\ UNCHANGED <<pc, config, typesOptions, workdir, progressImpl, logsFile,
                   logs, written, limiter, ctx, defers, closeStep, err, hist,
                   lastQuery>>
    /\ UNCHANGED <<request, progressStats, optsProgress, engineProgress>>

NextRegistry ==
    \/ \E id \in JobIDs, stats \in Runs : Register(id, stats)
    \/ \E id \in JobIDs : Unregister(id)
    \/ Query

SpecRegistry == Init /\ [][NextRegistry]_vars

\* ---------------------------------------------------------- limiter harness
\* The values the two rate-limit options are drawn from.
RateValues == {-1, 0, 1, 10, 60}

\* createExecuterOpts' choice of limiter, applied by run r to drawn options.
SelectLimiterFor(r, rateLimit, rateLimitMinute) ==
    LET opts == [set |-> TRUE, RateLimit |-> rateLimit,
                 RateLimitMinute |-> rateLimitMinute] IN
    /\ typesOptions' = [typesOptions EXCEPT ![r] = opts]
    /\ limiter' = [limiter EXCEPT ![r] = NewLimiter(r, selectLimiter(opts))]
    /\ UNCHANGED <<pc, config, workdir, Running, progressImpl, logsFile, logs,
                   written, ctx, defers, closeStep, err, hist, lastQuery,
                   regOp, request, progressStats, optsProgress, engineProgress>>

NextLimiter ==
    \E r \in Runs, rateLimit \in RateValues, rateLimitMinute \in RateValues :
        SelectLimiterFor(r, rateLimit, rateLimitMinute)

SpecLimiter == Init /\ [][NextLimiter]_vars

\* ------------------------------------------------------------------- claims
Has(seq, ev) == \E i \in DOMAIN seq : seq[i] = ev

Count(seq, ev) == Cardinality({i \in DOMAIN seq : seq[i] = ev})

CloseEvents == {"Flush", "FileClose", "Delete"}

CleanupEvents == CloseEvents \cup {"Close", "RemoveAll"}

IsPrefix(a, b) == Len(a) <= Len(b) /\ \A i \in DOMAIN a : a[i] = b[i]

Registered(r) ==
    Load(Running, ScanID(r)) = [ok |-> TRUE, value |-> makePercentReturnFunc(r)]

Unregistered(r) == ~Load(Running, ScanID(r)).ok

\* C1: once worker has returned, the registry holds no entry for the job's ID
\* and no log sink opened by the run is still open.
C1_NoLeakOnExit ==
    \A r \in Runs :
        pc[r] = "done" => Unregistered(r) /\ logsFile[r] # "open"

\* C2: while the scanContext is Created a query of the job's ID returns the
\* job's own accessor; once it is Closed the query finds nothing.
C2_QueryFollowsContext ==
    \A r \in Runs :
        /\ ctx[r] = "Created" => Registered(r)
        /\ ctx[r] = "Closed" => Unregistered(r)

C2_Witness ==
    \E r, q \in Runs :
        /\ ctx[r] = "Closed" /\ ctx[q] = "Created"
        /\ lastQuery.id = ScanID(q) /\ lastQuery.ok

\* C3: when createExecuterFromOpts fails, the scanContext is closed (writer
\* flushed, sink closed, entry removed) by the time worker has returned the
\* error, and Execute was never called.
C3_SetupErrorCloses ==
    \A r \in Runs :
        (pc[r] = "done" /\ err[r] = "SetupError") =>
            /\ ctx[r] = "Closed"
            /\ Has(hist[r], "Flush") /\ ~logs[r]
            /\ logsFile[r] = "closed"
            /\ Unregistered(r)
            /\ ~Has(hist[r], "Execute")

C3_Witness ==
    \E r \in Runs :
        pc[r] = "done" /\ err[r] = "SetupError" /\ ctx[r] = "Closed"

\* C4: when getSettingsForName fails, worker returns that error having made
\* no other call: no registry entry, no directory, no sink, no context, no
\* engine run.
C4_ConfigFailureTouchesNothing ==
    \A r \in Runs :
        /\ (pc[r] = "done" /\ config[r] = "missing") => err[r] = "ConfigNotFound"
        /\ (pc[r] = "done" /\ config[r] = "malformed") => err[r] = "DecodeError"
        /\ err[r] \in {"ConfigNotFound", "DecodeError"} =>
              /\ hist[r] = <<"getSettingsForName">>
              /\ Unregistered(r)
              /\ progressImpl[r] = 0
              /\ workdir[r] = "none"
              /\ logsFile[r] = "none"
              /\ ctx[r] = "none"

C4_Witness ==
    \E r, q \in Runs :
        /\ pc[r] = "done" /\ err[r] = "DecodeError"
        /\ pc[q] = "done" /\ err[q] = "ConfigNotFound"

\* C5: the statements of Close run in the order flush, sink close, registry
\* removal, each once; the entry is present until the removal and the sink is
\* open when the writer is flushed.
C5_CloseOrder ==
    \A r \in Runs :
        LET done == SelectSeq(hist[r], LAMBDA e : e \in CloseEvents) IN
        /\ IsPrefix(done, <<"Flush", "FileClose", "Delete">>)
        /\ ctx[r] = "Closed" => Len(done) = 3
        /\ (Has(hist[r], "Close") /\ ~Has(hist[r], "Delete")) => Registered(r)
        /\ (Has(hist[r], "Close") /\ ~Has(hist[r], "Flush")) => logsFile[r] = "open"

C5_Witness ==
    \E r \in Runs :
        /\ ctx[r] = "Closed"
        /\ written[r]

\* C6: a run that constructed a scanContext enters Close exactly once before
\* it returns, a run that constructed none never enters it, and no run enters
\* it twice.
C6_CloseExactlyOnce ==
    \A r \in Runs :
        /\ Count(hist[r], "Close") <= 1
        /\ ctx[r] = "none" => Count(hist[r], "Close") = 0
        /\ (pc[r] = "done" /\ ctx[r] # "none") => Count(hist[r], "Close") = 1

C6_Witness ==
    \E r, q \in Runs :
        /\ pc[r] = "done" /\ err[r] = "InputError" /\ Count(hist[r], "Close") = 1
        /\ pc[q] = "done" /\ err[q] = "IOError" /\ Count(hist[q], "Close") = 0

\* C7: once storeTemplatesFromRequest has succeeded the directory is removed
\* exactly once by the time worker has returned, with or without a
\* scanContext; it is never removed twice.
C7_WorkdirRemovedOnce ==
    \A r \in Runs :
        /\ Count(hist[r], "RemoveAll") <= 1
        /\ workdir[r] = "none" => Count(hist[r], "RemoveAll") = 0
        /\ (pc[r] = "done" /\ workdir[r] # "none") =>
              workdir[r] = "removed" /\ Count(hist[r], "RemoveAll") = 1

C7_Witness ==
    \E r, q \in Runs :
        /\ pc[r] = "done" /\ err[r] = "IOError" /\ ctx[r] = "none"
        /\ workdir[r] = "removed"
        /\ pc[q] = "done" /\ err[q] = "nil" /\ workdir[q] = "removed"

\* C8: Close has completed before the directory is removed, no pipeline step
\* follows a cleanup, and both cleanups are over when worker has returned.
C8_ReverseOrder ==
    \A r \in Runs :
        /\ \A i, j \in DOMAIN hist[r] :
              i < j =>
                 /\ ~(hist[r][i] = "RemoveAll" /\ hist[r][j] \in CleanupEvents)
                 /\ ~(hist[r][i] \in CleanupEvents /\ hist[r][j] \notin CleanupEvents)
        /\ (pc[r] = "done" /\ ctx[r] # "none") =>
              /\ ctx[r] = "Closed"
              /\ Has(hist[r], "Delete")
              /\ Has(hist[r], "RemoveAll")

C8_Witness ==
    \E r \in Runs :
        /\ pc[r] = "done" /\ err[r] = "nil"
        /\ Has(hist[r], "Delete") /\ Has(hist[r], "RemoveAll")

EntriesOf(reg, id) == {e \in reg : e.id = id}

\* C9: with any number of runs interleaved and status callers querying, the
\* registry has at most one entry per job ID, a job whose scanContext is
\* Created, Populated or Executing has its own entry, and a step of one run
\* (or a query) leaves the entries of every other job ID as they were.
C9_RegistryPerJob ==
    /\ [](\A r \in Runs :
            /\ Cardinality(EntriesOf(Running, ScanID(r))) <= 1
            /\ ctx[r] \in {"Created", "Populated", "Executing"} => Registered(r))
    /\ [][/\ \A r \in Runs :
               hist'[r] # hist[r] =>
                  \A id \in JobIDs \ {ScanID(r)} :
                     EntriesOf(Running', id) = EntriesOf(Running, id)
          /\ hist' = hist => Running' = Running]_vars

C9_Witness ==
    \E r, q \in Runs :
        /\ r # q
        /\ ctx[r] = "Executing" /\ Registered(r)
        /\ Has(hist[q], "Delete") /\ Unregistered(q)
        /\ lastQuery.id = ScanID(r) /\ lastQuery.ok

\* C10: unregistering an ID that has no entry leaves the registry as it was,
\* a second unregister of the same ID changes nothing, and neither changes
\* what a query of any other ID returns.
C10_UnregisterIdempotent ==
    regOp.op = "unregister" =>
        LET id == regOp.id
            twice == Delete(Running, id) IN
        /\ ~Load(regOp.before, id).ok => Running = regOp.before
        /\ ~Load(Running, id).ok
        /\ twice = Running
        /\ \A other \in JobIDs \ {id} :
              /\ Load(Running, other) = Load(regOp.before, other)
              /\ Load(twice, other) = Load(regOp.before, other)

C10_Witness ==
    /\ regOp.op = "unregister"
    /\ ~Load(regOp.before, regOp.id).ok
    /\ \E other \in JobIDs \ {regOp.id} : Load(Running, other).ok

\* C11: the limiter is a function of the two options alone: a per-minute
\* value above zero gives that many operations per 60 seconds whatever the
\* plain value is; otherwise the plain value per second.  (60, 0) gives 60
\* per 60 s and (0, 10) gives plain 10.
C11_SelectLimiter ==
    \A r \in Runs :
        typesOptions[r].set =>
            LET perMinute == typesOptions[r].RateLimitMinute
                plain == typesOptions[r].RateLimit IN
            /\ perMinute > 0 =>
                  limiter[r].limit = perMinute /\ limiter[r].per = 60
            /\ perMinute <= 0 =>
                  limiter[r].limit = plain /\ limiter[r].per = 1
            /\ (perMinute = 60 /\ plain = 0) =>
                  limiter[r].limit = 60 /\ limiter[r].per = 60
            /\ (perMinute = 0 /\ plain = 10) =>
                  limiter[r].limit = 10 /\ limiter[r].per = 1
            /\ \A q \in Runs :
                  (typesOptions[q].set
                   /\ typesOptions[q].RateLimitMinute = perMinute
                   /\ typesOptions[q].RateLimit = plain) =>
                     /\ limiter[q].limit = limiter[r].limit
                     /\ limiter[q].per = limiter[r].per

C11_Witness ==
    \E r, q \in Runs :
        /\ typesOptions[r].RateLimitMinute = 60 /\ typesOptions[r].RateLimit = 10
        /\ limiter[r].limit = 60 /\ limiter[r].per = 60
        /\ typesOptions[q].RateLimitMinute = 0 /\ typesOptions[q].RateLimit = 10
        /\ limiter[q].limit = 10 /\ limiter[q].per = 1

IndexOf(seq, ev) == CHOOSE i \in DOMAIN seq : seq[i] = ev

Before(seq, a, b) == Has(seq, a) /\ Has(seq, b) /\ IndexOf(seq, a) < IndexOf(seq, b)

\* C12: when Execute is called, Progress.Init has been called exactly once
\* before it, on the tracker of the options, with (targets, templates plus
\* workflows, their product); two templates and three targets give (3, 2, 6).
\* The metrics are read only after Execute has returned.
C12_InitBeforeExecute ==
    \A r \in Runs :
        /\ Has(hist[r], "Execute") =>
              LET tracker == progressStats[optsProgress[r]]
                  rules == request[r].templates + request[r].workflows IN
              /\ Count(hist[r], "Progress.Init") = 1
              /\ Before(hist[r], "Progress.Init", "Execute")
              /\ tracker.inits = 1
              /\ tracker.hosts = request[r].targets
              /\ tracker.rules = rules
              /\ tracker.requests = request[r].targets * rules
              /\ (request[r].templates = 2 /\ request[r].workflows = 0
                  /\ request[r].targets = 3) =>
                    tracker.hosts = 3 /\ tracker.rules = 2 /\ tracker.requests = 6
        /\ Has(hist[r], "GetMetrics") =>
              Before(hist[r], "ExecuteReturn", "GetMetrics")

C12_Witness ==
    \E r \in Runs :
        /\ pc[r] = "done" /\ Has(hist[r], "GetMetrics")
        /\ request[r].templates = 1 /\ request[r].workflows = 1
        /\ request[r].targets = 3
        /\ progressStats[optsProgress[r]] =
              [inits |-> 1, hosts |-> 3, rules |-> 2, requests |-> 6]

\* C13: a run that has called Execute returns nil whether or not Execute
\* reported a failure, after reading the metrics, closing the scanContext
\* and removing the directory.
C13_EngineFailureNotPropagated ==
    \A r \in Runs :
        Has(hist[r], "Execute") =>
            /\ err[r] \in {"pending", "nil"}
            /\ pc[r] = "done" =>
                  /\ err[r] = "nil"
                  /\ Has(hist[r], "GetMetrics")
                  /\ ctx[r] = "Closed"
                  /\ workdir[r] = "removed"

C13_Witness ==
    \E r \in Runs :
        /\ pc[r] = "done" /\ request[r].engineFails
        /\ Has(hist[r], "ExecuteReturn") /\ err[r] = "nil"

ForwardMoves ==
    {<<"none", "Created">>, <<"Created", "Populated">>,
     <<"Populated", "Executing">>, <<"Created", "Closed">>,
     <<"Populated", "Closed">>, <<"Executing", "Closed">>}

\* C14: a scanContext only moves none -> Created -> Populated -> Executing,
\* and from any of the three to Closed; Executing is never entered once an
\* error is being returned; after Closed the run writes no log, registers
\* nothing and makes no call but the removal of the directory.
C14_ForwardOnly ==
    [][\A r \in Runs :
          /\ ctx'[r] # ctx[r] => <<ctx[r], ctx'[r]>> \in ForwardMoves
          /\ (ctx[r] # "Executing" /\ ctx'[r] = "Executing") =>
                err[r] = "pending" /\ err'[r] = "pending"
          /\ ctx[r] = "Closed" =>
                /\ logs'[r] = logs[r]
                /\ written'[r] = written[r]
                /\ logsFile'[r] = logsFile[r]
                /\ EntriesOf(Running', ScanID(r)) = {}
                /\ hist'[r] \in {hist[r], Append(hist[r], "RemoveAll")}]_vars

C14_Witness ==
    \E r, q \in Runs :
        /\ ctx[r] = "Closed" /\ err[r] = "SetupError" /\ pc[r] = "done"
        /\ ctx[q] = "Closed" /\ err[q] = "nil" /\ pc[q] = "done"

PipelineOrder ==
    <<"getSettingsForName", "storeTemplatesFromRequest", "Running.Store",
      "Logs.Write", "createExecuterFromOpts", "inputProviderFromRequest",
      "Progress.Init", "Execute", "ExecuteReturn", "GetMetrics">>

FailingStep(e) ==
    CASE e \in {"ConfigNotFound", "DecodeError"} -> "getSettingsForName"
      [] e = "MaterializationError" -> "storeTemplatesFromRequest"
      [] e = "IOError" -> "Logs.Write"
      [] e = "SetupError" -> "createExecuterFromOpts"
      [] e = "InputError" -> "inputProviderFromRequest"
      [] OTHER -> "none"

\* C15: the steps of a run are a prefix of the pipeline, each made once; an
\* error is returned exactly when one of the five fallible steps failed, and
\* that step is then the last one made (no Progress.Init, no Execute); nil
\* is returned exactly when Execute was called.
C15_ShortCircuit ==
    \A r \in Runs :
        LET steps == SelectSeq(hist[r], LAMBDA e : e \notin CleanupEvents) IN
        /\ IsPrefix(steps, PipelineOrder)
        /\ err[r] \notin {"pending", "nil"} =>
              /\ FailingStep(err[r]) # "none"
              /\ steps # << >>
              /\ steps[Len(steps)] = FailingStep(err[r])
              /\ ~Has(hist[r], "Progress.Init")
              /\ ~Has(hist[r], "Execute")
        /\ err[r] = "nil" => steps = PipelineOrder
        /\ pc[r] = "done" =>
              /\ err[r] # "pending"
              /\ err[r] = "nil" <=> Has(hist[r], "Execute")

C15_Witness ==
    \E r, q \in Runs :
        /\ pc[r] = "done" /\ err[r] = "MaterializationError"
        /\ hist[r] = <<"getSettingsForName", "storeTemplatesFromRequest">>
        /\ pc[q] = "done" /\ err[q] = "nil" /\ Has(hist[q], "Execute")

\* C16: after a register the ID has exactly one entry and a query returns
\* the accessor just registered, also when the ID had an entry before; one
\* unregister then leaves the ID without an entry.
C16_RegisterOverwrites ==
    regOp.op = "register" =>
        LET id == regOp.id
            after == Delete(Running, id) IN
        /\ Cardinality(EntriesOf(Running, id)) = 1
        /\ Load(Running, id) = [ok |-> TRUE, value |-> [tracker |-> regOp.stats]]
        /\ EntriesOf(after, id) = {}
        /\ ~Load(after, id).ok

C16_Witness ==
    /\ regOp.op = "register"
    /\ Load(regOp.before, regOp.id).ok
    /\ Load(regOp.before, regOp.id).value.tracker # regOp.stats
    /\ Load(Running, regOp.id).value.tracker = regOp.stats

\* Everything run r owns: its locals, its scanContext and its tracker.
Local(r) ==
    <<pc[r], config[r], typesOptions[r], workdir[r], progressImpl[r],
      logsFile[r], logs[r], written[r], limiter[r], ctx[r], defers[r],
      closeStep[r], err[r], hist[r], request[r], progressStats[r],
      optsProgress[r], engineProgress[r]>>

C18_SinkLifecycle ==
    /\ [](\A r \in Runs :
            /\ Count(hist[r], "Logs.Write") <= 1
            /\ Count(hist[r], "FileClose") <= 1
            /\ logsFile[r] = "none" => ~Has(hist[r], "FileClose")
            /\ Has(hist[r], "FileClose") => logsFile[r] = "closed"
            /\ (pc[r] = "done" /\ logsFile[r] # "none") =>
                  logsFile[r] = "closed" /\ Count(hist[r], "FileClose") = 1
            /\ ~Before(hist[r], "FileClose", "Flush")
            /\ (ctx[r] \in {"Populated", "Executing"} /\ ~Has(hist[r], "Close")) =>
                  logsFile[r] = "open")
    /\ [][\A r \in Runs :
            logsFile[r] = "closed" =>
               /\ logsFile'[r] = "closed"
               /\ logs'[r] = logs[r]
               /\ written'[r] = written[r]]_vars

C18_Witness ==
    \E r, q \in Runs :
        /\ pc[r] = "done" /\ logsFile[r] = "closed" /\ written[r] /\ ~logs[r]
        /\ pc[q] = "done" /\ err[q] = "IOError" /\ logsFile[q] = "none"

\* C19: while a scanContext is Created, Populated or Executing, the accessor
\* registered under its job ID reads the tracker of its own options, which
\* is the tracker Progress.Init was called on and the one the engine was
\* given, and is no other run's tracker; every answer a status caller got
\* reads the tracker of the job it asked for.
C19_AccessorReadsOwnTracker ==
    /\ \A r \in Runs :
          ctx[r] \in {"Created", "Populated", "Executing"} =>
             LET acc == Load(Running, ScanID(r)) IN
             /\ acc.ok
             /\ acc.value.tracker # 0
             /\ acc.value.tracker = optsProgress[r]
             /\ acc.value.tracker = progressImpl[r]
             /\ \A q \in Runs \ {r} :
                   /\ acc.value.tracker # progressImpl[q]
                   /\ acc.value.tracker # optsProgress[q]
                   /\ acc.value.tracker # engineProgress[q]
             /\ ctx[r] \in {"Populated", "Executing"} =>
                   engineProgress[r] = acc.value.tracker
             /\ progressStats[acc.value.tracker].inits =
                   Count(hist[r], "Progress.Init")
    /\ lastQuery.ok =>
          \E r \in Runs :
             /\ lastQuery.id = ScanID(r)
             /\ lastQuery.value.tracker = progressImpl[r]

C19_Witness ==
    \E r, q \in Runs :
        /\ r # q
        /\ ctx[r] = "Executing" /\ ctx[q] = "Executing"
        /\ pc[r] = "executing" /\ pc[q] = "executing"
        /\ lastQuery.id = ScanID(q) /\ lastQuery.ok
        /\ lastQuery.value.tracker = engineProgress[q]
        /\ progressStats[engineProgress[q]].inits = 1

====
